---- MODULE Spec2Model ----
(***************************************************************************)
(* A model of notebookllm.ipynb: the whitespace tokenizer, the sinusoidal  *)
(* positional table and its use in SimpleLLM.forward, the teacher-forcing  *)
(* training loop and the prediction cell.                                  *)
(*                                                                         *)
(* Three specifications share the module:                                  *)
(*   SpecTok  tokenize() applied to bounded texts and vocabularies;        *)
(*   SpecPE   PositionalEncoding.__init__ and the embedding / positional   *)
(*            step of SimpleLLM.forward on tensors with explicit shapes;   *)
(*   Spec     the notebook's cells 8 and 9: tokenizing the corpus, the     *)
(*            training loop statement by statement, the prediction cell.   *)
(***************************************************************************)
EXTENDS Integers, Sequences, FiniteSets, TLC

VARIABLES
    \* ---- tokenizer (SpecTok)
    text,            \* the text handed to tokenize(): a sequence of characters
    tvocab,          \* the vocabulary handed to tokenize()
    ttokens,         \* what tokenize() returned
    tpc,             \* "off" | "ready" | "tokenized" | "KeyError"
    \* ---- positional encoding (SpecPE)
    embedding_dim,   \* PositionalEncoding.embedding_dim
    max_seq_len,     \* PositionalEncoding's max_seq_len argument
    pe,              \* the registered buffer 'pe' (a tensor), or ErrorTensor
    xin,             \* the token-id batch last given to SimpleLLM.forward
    emb,             \* the embedding lookup of xin (the positional step's input)
    y,               \* the positional step's result, transposed back
    ppc,             \* "off" | "new" | "ready" | "construct_error" | "returned" | "forward_error"
    \* ---- training and prediction cells (Spec)
    vocab,           \* cell 8: vocab
    data,            \* cell 8: data, a list of texts
    num_epochs,      \* the stop of range() in "for epoch in range(100)"
    tensors,         \* the model's tensors: name -> number of in-place writes so far
    grad,            \* .grad of every parameter: the examples whose gradient it sums
    tokenized_data,  \* cell 8: tokenized_data
    epoch,           \* loop variable of the epoch loop
    sidx,            \* 0-based index of `sentence` in tokenized_data
    i,               \* loop variable of the prefix loop
    input_seq,       \* cell 8: input_seq (the batch of one sequence)
    target,          \* cell 8: target
    output,          \* cell 8: output = model(input_seq)
    loss,            \* cell 8: loss, unbound until the first example
    steps,           \* optimizer.step() calls so far
    printed,         \* the epochs whose progress line was printed
    pc,              \* the statement of cell 8 to run next, or "done", "NameError", ...
    input_text,      \* cell 9: input_text
    input_tokens,    \* cell 9: input_tokens
    logits,          \* cell 9: output[:, -1, :] as numbers
    predicted_token, \* cell 9: predicted_token
    predicted        \* cell 9: the word printed

tokVars == <<text, tvocab, ttokens, tpc>>
peVars  == <<embedding_dim, max_seq_len, pe, xin, emb, y, ppc>>
cfgVars   == <<vocab, data, num_epochs>>
loopVars  == <<tokenized_data, epoch, sidx, i, input_seq, target, output, loss, steps, printed>>
predVars  == <<input_text, input_tokens, logits, predicted_token, predicted>>
trainVars == <<cfgVars, tensors, grad, loopVars, pc, predVars>>
vars      == <<tokVars, peVars, trainVars>>

Min(a, b) == IF a < b THEN a ELSE b
Max(a, b) == IF a < b THEN b ELSE a

(***************************************************************************)
(* Bounds of the model.                                                    *)
(***************************************************************************)
MaxTextLen   == 4    \* characters of a text given to tokenize()
MaxDim       == 4    \* embedding_dim ranges over 1..MaxDim
MaxMaxSeqLen == 3    \* max_seq_len ranges over 1..MaxMaxSeqLen
MaxBatch     == 2    \* batch size of a forward pass
MaxLen       == 3    \* sequence length of a forward pass
MaxSentLen   == 2    \* words of a sentence of a generated corpus
MaxCorpus    == 2    \* sentences of a generated corpus
MaxEpochs    == 2    \* epochs of a training run over a generated corpus
MaxPrefix    == 2    \* words of a generated prediction input
LogitLevels  == 3    \* distinct values a logit takes

(***************************************************************************)
(* tokenize(text, vocab)                                                 *)
(***************************************************************************)
Letters    == {"a", "b"}
Whitespace == {" ", "\t"}
Chars      == Letters \cup Whitespace

UNK == <<"<", "U", "N", "K", ">">>

\* str.split() with no argument: runs of whitespace separate the words,
\* leading and trailing whitespace yields no empty word.
RECURSIVE SplitFrom(_, _, _, _)
SplitFrom(t, k, cur, acc) ==
    IF k > Len(t)
    THEN IF cur = <<>> THEN acc ELSE Append(acc, cur)
    ELSE IF t[k] \in Whitespace
         THEN SplitFrom(t, k + 1, <<>>, IF cur = <<>> THEN acc ELSE Append(acc, cur))
         ELSE SplitFrom(t, k + 1, Append(cur, t[k]), acc)

Split(t) == SplitFrom(t, 1, <<>>, <<>>)

\* dict.get(word, default)
DictGet(voc, word, default) ==
    IF word \in DOMAIN voc THEN voc[word] ELSE default

\* A variant that records unknown words in the vocabulary (dict.setdefault).
TokenizeLearning(t, voc) ==
    LET words == Split(t)
        fresh == {words[k] : k \in 1..Len(words)} \ DOMAIN voc
    IN  [ids   |-> [k \in 1..Len(words) |-> DictGet(voc, words[k], voc[UNK])],
         vocab |-> [w \in DOMAIN voc \cup fresh |->
                        IF w \in DOMAIN voc THEN voc[w] ELSE voc[UNK]],
         raised |-> FALSE]

\* tokenize(): the list comprehension evaluates vocab["<UNK>"] for every word,
\* so a vocabulary without it raises KeyError as soon as there is a word.
tokenize(t, voc) ==
    LET words == Split(t)
    IN  IF words # <<>> /\ UNK \notin DOMAIN voc
        THEN [ids |-> <<>>, vocab |-> voc, raised |-> TRUE]
        ELSE [ids   |-> [k \in 1..Len(words) |-> DictGet(voc, words[k], voc[UNK])],
              vocab |-> voc,
              raised |-> FALSE]

RECURSIVE SeqsUpTo(_, _)
SeqsUpTo(S, n) ==
    IF n = 0 THEN {<<>>}
    ELSE LET shorter == SeqsUpTo(S, n - 1)
         IN  shorter \cup {Append(s, c) : s \in {q \in shorter : Len(q) = n - 1}, c \in S}

Texts == SeqsUpTo(Chars, MaxTextLen)

\* Vocabularies: word -> id, ids 0..n-1, the unknown token included.
VocabSmall == (<<"a">> :> 0) @@ (UNK :> 1)
VocabPair  == (<<"a">> :> 0) @@ (<<"a", "b">> :> 1) @@ (UNK :> 2) @@ (<<"b", "b">> :> 3)
Vocabularies == {VocabSmall, VocabPair}

TokIdle == text = <<>> /\ tvocab = VocabSmall /\ ttokens = <<>> /\ tpc = "off"

TokInit ==
    /\ text \in Texts
    /\ tvocab \in Vocabularies
    /\ ttokens = <<>>
    /\ tpc = "ready"

TokenizeCall ==
    /\ tpc = "ready"
    /\ LET r == tokenize(text, tvocab)
       IN  /\ ttokens' = r.ids
           /\ tvocab' = r.vocab
           /\ tpc' = IF r.raised THEN "KeyError" ELSE "tokenized"
    /\ UNCHANGED <<text, peVars, trainVars>>

(***************************************************************************)
(* Tensors: a shape and an element for every index.  Indices are 0-based   *)
(* as in the source.                                                       *)
(***************************************************************************)
Idx2(n0, n1) == (0..(n0 - 1)) \X (0..(n1 - 1))
Idx3(n0, n1, n2) == (0..(n0 - 1)) \X (0..(n1 - 1)) \X (0..(n2 - 1))

\* How many indices start, start+2, ... lie below n: the width of t[:, start::2]
StridedCount(n, start) == IF n <= start THEN 0 ELSE (n - start + 1) \div 2

\* A size-s dimension can be expanded to size d
CanExpand(s, d) == s = d \/ s = 1

ErrorTensor == [ok |-> FALSE, shape |-> <<>>, at |-> <<>>]

\* x.transpose(0, 1) of a 3-dimensional tensor
Transpose01(t) ==
    IF ~t.ok THEN ErrorTensor
    ELSE [ok    |-> TRUE,
          shape |-> <<t.shape[2], t.shape[1], t.shape[3]>>,
          at    |-> [ix \in Idx3(t.shape[2], t.shape[1], t.shape[3]) |->
                        t.at[<<ix[2], ix[1], ix[3]>>]]]

\* t[:n, :] of a 3-dimensional tensor: a slice never fails, it is clipped
SliceRows(t, n) ==
    LET m == Min(n, t.shape[1])
    IN  [ok    |-> TRUE,
         shape |-> <<m, t.shape[2], t.shape[3]>>,
         at    |-> [ix \in Idx3(m, t.shape[2], t.shape[3]) |-> t.at[ix]]]

\* a + b with broadcasting: sizes must agree or one of them be 1, else RuntimeError
Broadcastable(a, b) ==
    \A d \in 1..3 : a.shape[d] = b.shape[d] \/ a.shape[d] = 1 \/ b.shape[d] = 1

BroadcastDim(s, t) == IF s = 1 THEN t ELSE s

BroadcastAdd(a, b) ==
    IF ~Broadcastable(a, b) THEN ErrorTensor
    ELSE LET sh == [d \in 1..3 |-> BroadcastDim(a.shape[d], b.shape[d])]
             Pick(t, ix) == t.at[[d \in 1..3 |-> IF t.shape[d] = 1 THEN 0 ELSE ix[d]]]
         IN  [ok    |-> TRUE,
              shape |-> sh,
              at    |-> [ix \in Idx3(sh[1], sh[2], sh[3]) |->
                            [x |-> Pick(a, ix), plus |-> Pick(b, ix)]]]

(***************************************************************************)
(* PositionalEncoding                                                      *)
(***************************************************************************)
\* The symbolic value sin(p * div_term[i]) or cos(p * div_term[i]), where
\* div_term[i] = exp(2i * (-ln 10000 / D)) = 10000^(-2i/D).
Entry(fn, p, k) == [fn |-> fn, pos |-> p, freq |-> k]
Zero == [fn |-> "zero", pos |-> 0, freq |-> 0]

\* torch.zeros(max_seq_len, embedding_dim)
Zeros(n, D) == [ok |-> TRUE, shape |-> <<n, D>>, at |-> [ix \in Idx2(n, D) |-> Zero]]

\* torch.sin / torch.cos of position * div_term: shape (max_seq_len, len(div_term)),
\* div_term = arange(0, embedding_dim, 2) having ceil(D / 2) elements
Wave(fn, n, D) ==
    LET half == StridedCount(D, 0)
    IN  [ok |-> TRUE, shape |-> <<n, half>>,
         at |-> [ix \in Idx2(n, half) |-> Entry(fn, ix[1], ix[2])]]

\* t[:, start::2] = rhs : the right-hand side is expanded to the shape of the
\* selected columns, which fails unless each size is equal or 1
AssignStrided(t, start, rhs) ==
    LET cols == StridedCount(t.shape[2], start)
    IN  IF ~t.ok \/ ~CanExpand(rhs.shape[1], t.shape[1]) \/ ~CanExpand(rhs.shape[2], cols)
        THEN ErrorTensor
        ELSE [t EXCEPT !.at =
                [ix \in Idx2(t.shape[1], t.shape[2]) |->
                    IF ix[2] >= start /\ (ix[2] - start) % 2 = 0
                    THEN rhs.at[<<IF rhs.shape[1] = 1 THEN 0 ELSE ix[1],
                                  IF rhs.shape[2] = 1 THEN 0 ELSE (ix[2] - start) \div 2>>]
                    ELSE t.at[ix]]]

\* pe.unsqueeze(0).transpose(0, 1): (n, D) -> (n, 1, D)
UnsqueezeTranspose(t) ==
    IF ~t.ok THEN ErrorTensor
    ELSE [ok |-> TRUE, shape |-> <<t.shape[1], 1, t.shape[2]>>,
          at |-> [ix \in Idx3(t.shape[1], 1, t.shape[2]) |-> t.at[<<ix[1], ix[3]>>]]]

PositionalEncodingInit(D, n) ==
    UnsqueezeTranspose(
        AssignStrided(AssignStrided(Zeros(n, D), 0, Wave("sin", n, D)),
                      1, Wave("cos", n, D)))

\* PositionalEncoding.forward: x + self.pe[:x.size(0), :]
PositionalEncodingForward(x, table) ==
    BroadcastAdd(x, SliceRows(table, x.shape[1]))

(***************************************************************************)
(* SimpleLLM.forward up to the positional step                             *)
(***************************************************************************)
TokenIds == {0, 1}

\* Embedding.forward: row lookup, (B, L) -> (B, L, D); the element is the
\* symbolic parameter embedding.weight[row][col]
EmbeddingForward(x, D) ==
    [ok |-> TRUE, shape |-> <<x.shape[1], x.shape[2], D>>,
     at |-> [ix \in Idx3(x.shape[1], x.shape[2], D) |->
                [row |-> x.at[<<ix[1], ix[2]>>], col |-> ix[3]]]]

\* The same step without the two transposes: the table is indexed by batch.
EncodeUntransposed(e, table) == PositionalEncodingForward(e, table)

\* x.transpose(0, 1); positional_encoding(x); x.transpose(0, 1)
Encode(e, table) == Transpose01(PositionalEncodingForward(Transpose01(e), table))

PEIdle ==
    /\ embedding_dim = 0 /\ max_seq_len = 0 /\ pe = ErrorTensor
    /\ xin = ErrorTensor /\ emb = ErrorTensor /\ y = ErrorTensor /\ ppc = "off"

PEInit ==
    /\ embedding_dim \in 1..MaxDim
    /\ max_seq_len \in 1..MaxMaxSeqLen
    /\ pe = ErrorTensor /\ xin = ErrorTensor /\ emb = ErrorTensor /\ y = ErrorTensor
    /\ ppc = "new"

\* PositionalEncoding(embedding_dim, max_seq_len)
Construct ==
    /\ ppc = "new"
    /\ pe' = PositionalEncodingInit(embedding_dim, max_seq_len)
    /\ ppc' = IF pe'.ok THEN "ready" ELSE "construct_error"
    /\ UNCHANGED <<embedding_dim, max_seq_len, xin, emb, y, tokVars, trainVars>>

\* SimpleLLM.forward(x) on a batch of B sequences of L token ids
ForwardCall ==
    /\ ppc = "ready"
    /\ \E B \in 1..MaxBatch, L \in 1..MaxLen :
         \E ids \in [Idx2(B, L) -> TokenIds] :
            /\ xin' = [ok |-> TRUE, shape |-> <<B, L>>, at |-> ids]
            /\ emb' = EmbeddingForward(xin', embedding_dim)
            /\ y' = Encode(emb', pe)
            /\ ppc' = IF y'.ok THEN "returned" ELSE "forward_error"
    /\ UNCHANGED <<embedding_dim, max_seq_len, pe, tokVars, trainVars>>

(***************************************************************************)
(* Cells 7 and 8: the model's tensors, the optimizer and the training loop *)
(***************************************************************************)
NumLayers   == 2      \* num_layers
NumEpochs   == 100    \* for epoch in range(100)
ReportEvery == 10     \* if epoch % 10 == 0

\* model.parameters(): what nn.Embedding, nn.Linear and nn.LayerNorm register
Parameters ==
    {"embedding.embedding", "transformer_blocks.attention",
     "transformer_blocks.feed_forward", "transformer_blocks.norm1",
     "transformer_blocks.norm2", "output"}

\* model.buffers(): register_buffer('pe', pe)
Buffers == {"positional_encoding.pe"}

\* SimpleLLM(vocab_size, embedding_dim, hidden_dim, num_layers): no tensor
\* has been written since it was initialised
FreshTensors == [n \in Parameters \cup Buffers |-> 0]

\* before the first backward() no parameter has a gradient
NoGrad == [n \in Parameters |-> {}]

\* without the reset the gradients of earlier examples stay in .grad
ZeroGradSkipped(g) == g

\* optimizer.zero_grad()
zero_grad(g) == [n \in DOMAIN g |-> {}]

\* loss.backward(): adds the example's gradient to .grad of every parameter
\* (all of them take part in every forward pass; the buffer has no .grad)
backward(g, example) == [n \in DOMAIN g |-> g[n] \cup {example}]

\* an optimizer built over the buffers as well
StepWithBuffers(t, g) ==
    [n \in DOMAIN t |-> IF n \in Buffers THEN t[n] + 1
                        ELSE IF g[n] # {} THEN t[n] + 1 ELSE t[n]]

\* optimizer.step() of optim.Adam(model.parameters()): writes in place every
\* parameter that has a gradient, and nothing else
optimizer_step(t, g) ==
    [n \in DOMAIN t |-> IF n \in Parameters
                        THEN IF g[n] # {} THEN t[n] + 1 ELSE t[n]
                        ELSE t[n]]

\* sentence[:i + 1]
InputSeqWithTarget(sentence, k) == SubSeq(sentence, 1, Min(k + 1, Len(sentence)))

\* sentence[:i]  (torch.tensor(...).unsqueeze(0) makes it a batch of one)
InputSeq(sentence, k) == SubSeq(sentence, 1, k)

\* sentence[i], 0-based
Target(sentence, k) == sentence[k + 1]

\* range(1, len(sentence) - 1)
PrefixRangeShort(sentence) == [start |-> 1, stop |-> Len(sentence) - 1]

\* range(1, len(sentence))
PrefixRange(sentence) == [start |-> 1, stop |-> Len(sentence)]

(***************************************************************************)
(* SimpleLLM.forward on one sequence, symbolically.  After the embedding   *)
(* and the positional step, position p holds embedding.weight[tok] + pe[p] *)
(* (Encode above), written <<tok, p>>.  Every later layer is a function of *)
(* the parameters and of its input; what is tracked per position is `own`, *)
(* the embedded token of the position, and `ctx`, the embedded tokens the  *)
(* value at the position is computed from.                                 *)
(***************************************************************************)
Embedded(seq) ==
    [p \in 1..Len(seq) |-> [own |-> <<seq[p], p - 1>>, ctx |-> {<<seq[p], p - 1>>}]]

\* attention restricted to the positions up to the query's own
CausalSelfAttention(h) ==
    [p \in DOMAIN h |-> UNION {h[q].ctx : q \in 1..p}]

\* SelfAttention.forward: softmax(Q K^T / sqrt(D)) V with no mask, so the row
\* of every position mixes the values of all positions
SelfAttention(h) ==
    [p \in DOMAIN h |-> UNION {h[q].ctx : q \in DOMAIN h}]

\* TransformerBlock.forward: norm1(x + attended), feed_forward, norm2(x + forwarded);
\* everything but the attention acts on each position separately
TransformerBlock(h) ==
    LET attended == SelfAttention(h)
    IN  [p \in DOMAIN h |-> [own |-> h[p].own, ctx |-> h[p].ctx \cup attended[p]]]

\* nn.Sequential of n blocks
RECURSIVE Blocks(_, _)
Blocks(h, n) == IF n = 0 THEN h ELSE Blocks(TransformerBlock(h), n - 1)

\* SimpleLLM.forward; self.output acts on each position separately.
\* theta is the state of the tensors the pass read.
SimpleLLMForward(t, seq) ==
    [theta |-> t, at |-> Blocks(Embedded(seq), NumLayers)]

NoLogits == [theta |-> <<>>, own |-> <<>>, ctx |-> {}]
NoOutput == [theta |-> <<>>, at |-> <<>>]

\* output[:, -1, :]
LastPosition(out) ==
    [theta |-> out.theta, own |-> out.at[Len(out.at)].own, ctx |-> out.at[Len(out.at)].ctx]

\* before the first example `loss` is not bound
Unbound == [bound |-> FALSE, logits |-> NoLogits, target |-> 0 - 1]

\* criterion(output[:, -1, :], target)
CrossEntropy(lg, tgt) == [bound |-> TRUE, logits |-> lg, target |-> tgt]

(***************************************************************************)
(* Cell 8, statement by statement                                          *)
(***************************************************************************)
Example == <<epoch, sidx, i>>

\* tokenized_data = [tokenize(sentence, vocab) for sentence in data]
TokenizeData ==
    /\ pc = "tokenize_data"
    /\ LET r == [k \in 1..Len(data) |-> tokenize(data[k], vocab)]
       IN  IF \E k \in 1..Len(data) : r[k].raised
           THEN /\ pc' = "KeyError"
                /\ UNCHANGED tokenized_data
           ELSE /\ tokenized_data' = [k \in 1..Len(data) |-> r[k].ids]
                /\ pc' = "for_epoch"
    /\ UNCHANGED <<cfgVars, tensors, grad, epoch, sidx, i, input_seq, target, output,
                   loss, steps, printed, predVars, tokVars, peVars>>

\* for epoch in range(100): `epoch` holds the value the iterator gives next
ForEpoch ==
    /\ pc = "for_epoch"
    /\ IF epoch < num_epochs
       THEN sidx' = 0 /\ pc' = "for_sentence"
       ELSE sidx' = sidx /\ pc' = "done"
    /\ UNCHANGED <<cfgVars, tensors, grad, tokenized_data, epoch, i, input_seq, target,
                   output, loss, steps, printed, predVars, tokVars, peVars>>

\* for sentence in tokenized_data:
ForSentence ==
    /\ pc = "for_sentence"
    /\ IF sidx < Len(tokenized_data)
       THEN i' = PrefixRange(tokenized_data[sidx + 1]).start /\ pc' = "for_i"
       ELSE i' = i /\ pc' = "report"
    /\ UNCHANGED <<cfgVars, tensors, grad, tokenized_data, epoch, sidx, input_seq, target,
                   output, loss, steps, printed, predVars, tokVars, peVars>>

\* for i in range(1, len(sentence)): input_seq = ...; target = ...
ForI ==
    /\ pc = "for_i"
    /\ LET sentence == tokenized_data[sidx + 1]
       IN  IF i < PrefixRange(sentence).stop
           THEN /\ input_seq' = InputSeq(sentence, i)
                /\ target' = Target(sentence, i)
                /\ sidx' = sidx
                /\ pc' = "zero_grad"
           ELSE /\ sidx' = sidx + 1
                /\ pc' = "for_sentence"
                /\ UNCHANGED <<input_seq, target>>
    /\ UNCHANGED <<cfgVars, tensors, grad, tokenized_data, epoch, i, output, loss, steps,
                   printed, predVars, tokVars, peVars>>

\* optimizer.zero_grad()
ZeroGrad ==
    /\ pc = "zero_grad"
    /\ grad' = zero_grad(grad)
    /\ pc' = "forward"
    /\ UNCHANGED <<cfgVars, tensors, loopVars, predVars, tokVars, peVars>>

\* output = model(input_seq)
Forward ==
    /\ pc = "forward"
    /\ output' = SimpleLLMForward(tensors, input_seq)
    /\ pc' = "loss"
    /\ UNCHANGED <<cfgVars, tensors, grad, tokenized_data, epoch, sidx, i, input_seq,
                   target, loss, steps, printed, predVars, tokVars, peVars>>

\* loss = criterion(output[:, -1, :], target)
Loss ==
    /\ pc = "loss"
    /\ loss' = CrossEntropy(LastPosition(output), target)
    /\ pc' = "backward"
    /\ UNCHANGED <<cfgVars, tensors, grad, tokenized_data, epoch, sidx, i, input_seq,
                   target, output, steps, printed, predVars, tokVars, peVars>>

\* loss.backward()
Backward ==
    /\ pc = "backward"
    /\ grad' = backward(grad, Example)
    /\ pc' = "step"
    /\ UNCHANGED <<cfgVars, tensors, loopVars, predVars, tokVars, peVars>>

\* optimizer.step(), then the prefix loop takes its next value
Step ==
    /\ pc = "step"
    /\ tensors' = optimizer_step(tensors, grad)
    /\ steps' = steps + 1
    /\ i' = i + 1
    /\ pc' = "for_i"
    /\ UNCHANGED <<cfgVars, grad, tokenized_data, epoch, sidx, input_seq, target, output,
                   loss, printed, predVars, tokVars, peVars>>

\* if epoch % 10 == 0: print(f"Epoch {epoch}, Loss: {loss.item()}")
\* then the epoch loop takes its next value
Report ==
    /\ pc = "report"
    /\ IF epoch % ReportEvery = 0
       THEN IF loss.bound
            THEN printed' = Append(printed, epoch) /\ epoch' = epoch + 1 /\ pc' = "for_epoch"
            ELSE printed' = printed /\ epoch' = epoch /\ pc' = "NameError"
       ELSE printed' = printed /\ epoch' = epoch + 1 /\ pc' = "for_epoch"
    /\ UNCHANGED <<cfgVars, tensors, grad, tokenized_data, sidx, i, input_seq, target,
                   output, loss, steps, predVars, tokVars, peVars>>

(***************************************************************************)
(* Cell 9: prediction                                                      *)
(***************************************************************************)
RECURSIVE Weigh(_)
Weigh(S) ==
    IF S = {} THEN 0
    ELSE LET e == CHOOSE x \in S : TRUE
         IN  (e[1] + 1) * (e[2] + 1) + Weigh(S \ {e})

\* The number the network computes for vocabulary entry v.  The real value
\* is floating-point arithmetic over the parameters; here it is an arbitrary
\* fixed function of exactly what that arithmetic reads: the state of the
\* parameters, the embedded token of the position and the embedded tokens
\* it attends to.
Logit(lg, v) ==
    (Weigh(lg.ctx) * (v + 1) + lg.theta["output"] * (v + 2) + lg.own[1] + v) % LogitLevels

LogitsVector(lg, size) == [v \in 0..(size - 1) |-> Logit(lg, v)]

RECURSIVE ArgMaxLastFrom(_, _, _)
ArgMaxLastFrom(vec, k, best) ==
    IF k \notin DOMAIN vec THEN best
    ELSE ArgMaxLastFrom(vec, k + 1, IF vec[k] >= vec[best] THEN k ELSE best)

RECURSIVE ArgMaxFrom(_, _, _)
ArgMaxFrom(vec, k, best) ==
    IF k \notin DOMAIN vec THEN best
    ELSE ArgMaxFrom(vec, k + 1, IF vec[k] > vec[best] THEN k ELSE best)

\* an argmax that keeps the last of several maximal values
ArgMaxLast(vec) == ArgMaxLastFrom(vec, 1, 0)

\* torch.argmax: the index of the first maximal value
argmax(vec) == ArgMaxFrom(vec, 1, 0)

NoWord == <<>>

\* list(vocab.keys())[list(vocab.values()).index(token)]; .index raises
\* ValueError when no word has the id.  Ids are unique in every vocabulary
\* here, so the dict's order does not matter.
ReverseLookup(voc, token) ==
    LET ws == {w \in DOMAIN voc : voc[w] = token}
    IN  IF ws = {} THEN NoWord ELSE CHOOSE w \in ws : TRUE

vocab_size == Cardinality(DOMAIN vocab)

\* The whole cell.  torch.tensor([]) is a float tensor, which nn.Embedding
\* rejects: an empty input raises.
Predict(txt) ==
    LET toks == tokenize(txt, vocab).ids
        out  == SimpleLLMForward(tensors, toks)
        lv   == LogitsVector(LastPosition(out), vocab_size)
    IN  /\ input_text' = txt
        /\ input_tokens' = toks
        /\ IF toks = <<>>
           THEN /\ pc' = "predict_error"
                /\ UNCHANGED <<output, logits, predicted_token, predicted>>
           ELSE /\ output' = out
                /\ logits' = lv
                /\ predicted_token' = argmax(lv)
                /\ predicted' = ReverseLookup(vocab, argmax(lv))
                /\ pc' = "predicted"
        /\ UNCHANGED <<cfgVars, tensors, grad, tokenized_data, epoch, sidx, i, input_seq,
                       target, loss, steps, printed, tokVars, peVars>>

(***************************************************************************)
(* Configurations: vocabulary, corpus and number of epochs                 *)
(***************************************************************************)
A == <<"a">>
B == <<"b">>
VocabAB == (A :> 0) @@ (B :> 1) @@ (UNK :> 2)

Hello == <<"h", "e", "l", "l", "o">>
World == <<"w", "o", "r", "l", "d">>
How   == <<"h", "o", "w">>
Are   == <<"a", "r", "e">>
You   == <<"y", "o", "u">>

\* vocab = {"hello": 0, "world": 1, "how": 2, "are": 3, "you": 4, "<UNK>": 5}
RefVocab ==
    (Hello :> 0) @@ (World :> 1) @@ (How :> 2) @@ (Are :> 3) @@ (You :> 4) @@ (UNK :> 5)

RECURSIVE JoinWords(_)
JoinWords(ws) ==
    IF ws = <<>> THEN <<>>
    ELSE IF Len(ws) = 1 THEN ws[1]
    ELSE ws[1] \o <<" ">> \o JoinWords(Tail(ws))

\* data = ["hello world how are you", "how are you hello world"]
RefData ==
    <<JoinWords(<<Hello, World, How, Are, You>>), JoinWords(<<How, Are, You, Hello, World>>)>>

\* input_text = "hello world how"
RefInput == JoinWords(<<Hello, World, How>>)

SentenceTexts == {JoinWords(ws) : ws \in SeqsUpTo({A, B}, MaxSentLen)}
Datasets == SeqsUpTo(SentenceTexts, MaxCorpus)

Configs ==
    {<<VocabAB, d, e>> : d \in Datasets, e \in 1..MaxEpochs}
        \cup {<<RefVocab, RefData, NumEpochs>>}

PredictTexts ==
    {JoinWords(ws) : ws \in SeqsUpTo({A, B, <<"a", "b">>}, MaxPrefix)} \cup {RefInput}

\* running cell 9 after cell 8 has finished
PredictCell ==
    /\ pc = "done"
    /\ \E txt \in PredictTexts : Predict(txt)

\* running cell 9 once more, unedited
PredictAgain ==
    /\ pc = "predicted"
    /\ Predict(input_text)

TrainIdle ==
    /\ vocab = VocabAB /\ data = <<>> /\ num_epochs = 0
    /\ tensors = FreshTensors /\ grad = NoGrad
    /\ tokenized_data = <<>> /\ epoch = 0 /\ sidx = 0 /\ i = 0
    /\ input_seq = <<>> /\ target = 0 - 1 /\ output = NoOutput /\ loss = Unbound
    /\ steps = 0 /\ printed = <<>> /\ pc = "off"
    /\ input_text = <<>> /\ input_tokens = <<>> /\ logits = <<>>
    /\ predicted_token = 0 - 1 /\ predicted = NoWord

\* the state after model, criterion and optimizer have been constructed
TrainInit ==
    /\ \E c \in Configs : vocab = c[1] /\ data = c[2] /\ num_epochs = c[3]
    /\ tensors = FreshTensors /\ grad = NoGrad
    /\ tokenized_data = <<>> /\ epoch = 0 /\ sidx = 0 /\ i = 0
    /\ input_seq = <<>> /\ target = 0 - 1 /\ output = NoOutput /\ loss = Unbound
    /\ steps = 0 /\ printed = <<>> /\ pc = "tokenize_data"
    /\ input_text = <<>> /\ input_tokens = <<>> /\ logits = <<>>
    /\ predicted_token = 0 - 1 /\ predicted = NoWord

(***************************************************************************)
(* Specifications                                                          *)
(***************************************************************************)
Init == TrainInit /\ TokIdle /\ PEIdle
Next ==
    \/ TokenizeData \/ ForEpoch \/ ForSentence \/ ForI
    \/ ZeroGrad \/ Forward \/ Loss \/ Backward \/ Step
    \/ Report \/ PredictCell \/ PredictAgain
Spec == Init /\ [][Next]_vars

InitTok == TokInit /\ PEIdle /\ TrainIdle
NextTok == TokenizeCall
SpecTok == InitTok /\ [][NextTok]_vars

InitPE == PEInit /\ TokIdle /\ TrainIdle
NextPE == Construct \/ ForwardCall
SpecPE == InitPE /\ [][NextPE]_vars

(***************************************************************************)
(* Properties of tokenize()                                                *)
(***************************************************************************)
\* The words of a text, described without scanning: a word starts where a
\* non-whitespace character follows the start of the text or a whitespace.
WordStarts(t) ==
    {k \in 1..Len(t) : t[k] \notin Whitespace /\ (k = 1 \/ t[k - 1] \in Whitespace)}

WordEnd(t, s) ==
    CHOOSE e \in s..Len(t) :
        /\ \A j \in s..e : t[j] \notin Whitespace
        /\ e = Len(t) \/ t[e + 1] \in Whitespace

NthWord(t, n) ==
    LET s == CHOOSE k \in WordStarts(t) :
                 Cardinality({q \in WordStarts(t) : q < k}) = n - 1
    IN  SubSeq(t, s, WordEnd(t, s))

IdsOf(voc) == {voc[w] : w \in DOMAIN voc}

TokenizeResult ==
    /\ tpc # "KeyError"
    /\ tpc = "tokenized" =>
         /\ Len(ttokens) = Cardinality(WordStarts(text))
         /\ \A n \in 1..Len(ttokens) :
              /\ ttokens[n] \in IdsOf(tvocab)
              /\ ttokens[n] = IF NthWord(text, n) \in DOMAIN tvocab
                              THEN tvocab[NthWord(text, n)]
                              ELSE tvocab[UNK]

\* C8: tokenize never raises and returns, in word order, one id per
\* whitespace-separated word of the text: the word's id when the vocabulary
\* has the word, the unknown-token id otherwise; every id is an id of the
\* vocabulary, and the vocabulary is not modified.
C8_Tokenize == []TokenizeResult /\ [][tvocab' = tvocab]_vars

\* a text with a known word, an unknown word and a run of whitespace was tokenized
C8_Witness ==
    /\ tpc = "tokenized"
    /\ Len(ttokens) >= 2
    /\ \E n \in 1..Len(ttokens) : NthWord(text, n) \notin DOMAIN tvocab
    /\ \E n \in 1..Len(ttokens) : NthWord(text, n) \in DOMAIN tvocab
    /\ \E k \in 1..(Len(text) - 1) : text[k] \in Whitespace /\ text[k + 1] \in Whitespace

(***************************************************************************)
(* Properties of the positional table and the positional step              *)
(***************************************************************************)
Sinusoid(p, c) == Entry(IF c % 2 = 0 THEN "sin" ELSE "cos", p, c \div 2)

\* C9: for every embedding_dim > 0, even or odd, construction succeeds and
\* the table has one row per position and D channels, channel 2i holding the
\* sine and channel 2i+1 the cosine of frequency index i.
C9_ConstructionSucceeds ==
    ppc # "new" =>
        /\ ppc # "construct_error"
        /\ pe.ok
        /\ pe.shape = <<max_seq_len, 1, embedding_dim>>
        /\ \A p \in 0..(max_seq_len - 1), c \in 0..(embedding_dim - 1) :
              pe.at[<<p, 0, c>>] = Sinusoid(p, c)

\* C6: a forward pass on a sequence longer than max_seq_len fails, for every
\* max_seq_len >= 1.
C6_TooLongFails ==
    (ppc \in {"returned", "forward_error"} /\ xin.shape[2] > max_seq_len)
        => ppc = "forward_error"

\* C7: for a batch of sequences of length L <= max_seq_len the positional
\* step returns the shape (B, L, D) of its input and its element at batch b,
\* position p, channel c is the input element plus pe[p][c], whatever b is.
C7_AddsRowOfPosition ==
    (ppc \in {"returned", "forward_error"} /\ xin.shape[2] <= max_seq_len) =>
        /\ ppc = "returned"
        /\ y.shape = <<xin.shape[1], xin.shape[2], embedding_dim>>
        /\ y.shape = emb.shape
        /\ \A ix \in Idx3(y.shape[1], y.shape[2], y.shape[3]) :
              /\ y.at[ix].x = emb.at[ix]
              /\ y.at[ix].plus = pe.at[<<ix[2], 0, ix[3]>>]
              /\ y.at[ix].plus = Sinusoid(ix[2], ix[3])

\* a batch of two sequences of two or more tokens went through the step
C7_Witness ==
    /\ ppc = "returned"
    /\ xin.shape[1] = 2
    /\ xin.shape[2] >= 2
    /\ xin.shape[2] <= max_seq_len
    /\ embedding_dim >= 2

(***************************************************************************)
(* Properties of the training loop and of the prediction cell              *)
(***************************************************************************)
InExample == pc \in {"zero_grad", "forward", "loss", "backward", "step"}
Finished  == pc \in {"done", "predicted", "predict_error", "NameError"}

\* the examples of one sentence, by prefix length
SentenceExamples(S) ==
    [k \in 1..Max(0, Len(S) - 1) |-> <<SubSeq(S, 1, k), S[k + 1]>>]

\* the examples of one epoch, in corpus order
RECURSIVE EpochExamples(_)
EpochExamples(td) ==
    IF td = <<>> THEN <<>> ELSE SentenceExamples(Head(td)) \o EpochExamples(Tail(td))

RECURSIVE SumOfPrefixes(_)
SumOfPrefixes(td) ==
    IF td = <<>> THEN 0 ELSE Max(0, Len(Head(td)) - 1) + SumOfPrefixes(Tail(td))

RefTokens == <<<<0, 1, 2, 3, 4>>, <<2, 3, 4, 0, 1>>>>

\* C1: the example in progress is always the next one of the sequence
\* "epoch by epoch, sentence by sentence, prefix length 1 .. len-1, input
\* S[0:i], target S[i]", its loss is taken on the logits of the last input
\* position, and training ends after E * sum(max(0, len(S) - 1)) examples:
\* 800 for the reference corpus and 100 epochs.
C1_ExampleSequence ==
    /\ InExample =>
         LET ex == EpochExamples(tokenized_data)
         IN  /\ Len(ex) > 0
             /\ epoch = steps \div Len(ex)
             /\ epoch < num_epochs
             /\ <<input_seq, target>> = ex[(steps % Len(ex)) + 1]
    /\ pc \in {"backward", "step"} =>
         /\ Len(output.at) = Len(input_seq)
         /\ loss.bound
         /\ loss.target = target
         /\ loss.logits.theta = output.theta
         /\ loss.logits.own = <<input_seq[Len(input_seq)], Len(input_seq) - 1>>
         /\ loss.logits.ctx = output.at[Len(input_seq)].ctx
    /\ Finished => steps = num_epochs * SumOfPrefixes(tokenized_data)
    /\ (Finished /\ tokenized_data = RefTokens /\ num_epochs = NumEpochs) => steps = 800

\* the reference run has finished
C1_Witness == pc = "done" /\ tokenized_data = RefTokens /\ steps = 800

C2_State ==
    /\ pc = "step" => \A n \in Parameters : grad[n] = {Example}
    /\ pc \in {"loss", "backward", "step"} =>
         /\ output.theta = tensors
         /\ \A n \in Parameters : output.theta[n] = steps

C2_Order ==
    /\ pc = "for_i" /\ pc' # "for_sentence" => pc' = "zero_grad"
    /\ pc = "zero_grad" => pc' = "forward" /\ steps' = steps
    /\ pc = "forward" => pc' = "loss" /\ steps' = steps
    /\ pc = "loss" => pc' = "backward" /\ steps' = steps
    /\ pc = "backward" => pc' = "step" /\ steps' = steps
    /\ pc = "step" => pc' = "for_i" /\ steps' = steps + 1
    /\ steps' # steps => pc = "step"
    /\ grad' # grad => pc \in {"zero_grad", "backward"}

\* C2: every example runs zero_grad, forward, loss, backward, step in this
\* order and ends with one optimizer step; at that step the gradient of every
\* parameter is the gradient of this example alone, and the forward pass read
\* the parameters as the previous example's step left them.
C2_OneStepPerExample == []C2_State /\ [][C2_Order]_vars

\* an optimizer step is due for an example of the second sentence
C2_Witness == pc = "step" /\ sidx >= 1 /\ steps >= 2

\* C3: only optimizer.step() changes a trainable parameter; nothing changes
\* the positional table.
C3_OnlyStepWrites ==
    /\ [](tensors["positional_encoding.pe"] = 0)
    /\ [][/\ pc # "step" => tensors' = tensors
          /\ tensors'["positional_encoding.pe"] = tensors["positional_encoding.pe"]]_vars

\* a prediction was made after several training steps
C3_Witness ==
    /\ pc = "predicted"
    /\ steps >= 2
    /\ \A n \in Parameters : tensors[n] = steps

C4_State ==
    pc = "predicted" =>
        /\ input_tokens # <<>>
        /\ logits = LogitsVector(LastPosition(SimpleLLMForward(tensors, input_tokens)),
                                 vocab_size)
        /\ predicted_token \in 0..(vocab_size - 1)
        /\ \A v \in 0..(vocab_size - 1) : logits[v] <= logits[predicted_token]
        /\ \A v \in 0..(predicted_token - 1) : logits[v] < logits[predicted_token]
        /\ predicted \in DOMAIN vocab
        /\ \A w \in DOMAIN vocab : vocab[w] = predicted_token <=> w = predicted

\* C4: the prediction cell returns the id of the largest last-position
\* logit, the lowest such id on a tie, an id below vocab_size, and prints
\* the one word with this id; run again on the same input it prints the
\* same word.
C4_Prediction ==
    /\ []C4_State
    /\ [][(pc = "predicted" /\ pc' = "predicted" /\ input_text' = input_text)
             => predicted' = predicted /\ predicted_token' = predicted_token]_vars

\* a prediction on two or more tokens where the largest logit occurs twice
C4_Witness ==
    /\ pc = "predicted"
    /\ Len(input_tokens) >= 2
    /\ \E v \in 0..(vocab_size - 1) : v > predicted_token /\ logits[v] = logits[predicted_token]

\* C5: a corpus with a sentence of fewer than two tokens trains to the end,
\* the progress reports included.
C5_ShortSentenceNoError ==
    (\E k \in 1..Len(tokenized_data) : Len(tokenized_data[k]) < 2) => pc # "NameError"

\* the current sentence with one token at 0-based index >= k replaced
Alternatives(S, k) ==
    {[S EXCEPT ![j] = t] : j \in (k + 1)..Len(S), t \in 0..(vocab_size - 1)}

\* C10: after the forward pass of an example every position's output is
\* computed from the tokens of all positions of the prefix (no causal mask),
\* and the logits the loss is taken on are computed from S[0..i-1] only: a
\* sentence that differs from S at index i or later gives the same logits
\* under the same parameters.
C10_NoLeakAcrossExamples ==
    /\ pc \in {"loss", "backward", "step"} =>
         \A p \in 1..Len(output.at) :
            output.at[p].ctx = {<<input_seq[q], q - 1>> : q \in 1..Len(input_seq)}
    /\ pc \in {"backward", "step"} =>
         LET S == tokenized_data[sidx + 1]
         IN  /\ loss.logits.ctx = {<<S[q], q - 1>> : q \in 1..i}
             /\ \A T \in Alternatives(S, i) :
                   LastPosition(SimpleLLMForward(output.theta, InputSeq(T, i))) = loss.logits

\* an example with two or more input tokens and two or more tokens after them
C10_Witness ==
    /\ pc = "step"
    /\ i >= 2
    /\ Len(tokenized_data[sidx + 1]) >= i + 2

====
